---- MODULE Spec2Model ----
(***************************************************************************)
(* Model of the nextbus client (src/nextbus.go).                           *)
(*                                                                         *)
(* Every operation of Client builds a request URL, issues one GET on the   *)
(* transport, reads the body, decodes it as XML and returns (result, err). *)
(* An invocation is a small process: the operation's action builds the URL *)
(* and issues the GET; the transport answers with an error or a response;  *)
(* ReadAll and Unmarshal follow; every return after the deferred           *)
(* resp.Body.Close() was registered closes the body.  Spec has one caller; *)
(* ConcSpec interleaves the invocations of two callers of one Client.      *)
(*                                                                         *)
(* Text is a sequence of tokens.  The characters the code or the URL       *)
(* syntax treat specially ("&", "=", "|", " ", "%", "+", and "t" as the    *)
(* key of the since-time parameter) are tokens of their own; every other   *)
(* token ("alpha", "routeConfig", "26", ...) stands for a run of           *)
(* unreserved characters (letters and digits), which url.QueryEscape       *)
(* leaves alone.                                                           *)
(***************************************************************************)
EXTENDS Naturals, Sequences, FiniteSets

\* Largest number of options passed to one variadic call.
MaxOpts == 2

Procs == {1, 2}

\* Caller-supplied strings (agencyTag, routeTag, stopTag, stopID).
Values ==
  { <<"alpha">>,
    <<>>,
    <<"a", "&", "t", "=", "1">>,
    <<"1", "|", " ", "2">>,
    <<"%", "26", "+">> }

\* Strings given to the option constructors.
OptValues ==
  { <<"N">>,
    <<"1", "&", "t", "=", "0", "|", " ", "%", "7C", "+">> }

----------------------------------------------------------------------------
\* Text helpers (strings.Join, strings.HasPrefix, net/url).

RECURSIVE Join(_, _)
Join(parts, sep) ==
  IF parts = <<>> THEN <<>>
  ELSE IF Len(parts) = 1 THEN parts[1]
  ELSE parts[1] \o sep \o Join(Tail(parts), sep)

HasPrefix(s, prefix) ==
  /\ Len(s) >= Len(prefix)
  /\ SubSeq(s, 1, Len(prefix)) = prefix

\* The two hexadecimal digits url.QueryEscape writes after "%" for a
\* character that is neither unreserved nor a space.
HexOf(c) ==
  CASE c = "&" -> "26"
    [] c = "=" -> "3D"
    [] c = "|" -> "7C"
    [] c = "%" -> "25"
    [] c = "+" -> "2B"

Reserved == {"&", "=", "|", "%", "+"}

HexCodes == { HexOf(c) : c \in Reserved }

CharOf(h) == CHOOSE c \in Reserved : HexOf(c) = h

RECURSIVE QueryEscape(_)
QueryEscape(s) ==
  IF s = <<>> THEN <<>>
  ELSE LET c == Head(s)
           e == IF c = " " THEN <<"+">>
                ELSE IF c \in Reserved THEN <<"%", HexOf(c)>>
                ELSE <<c>>
       IN e \o QueryEscape(Tail(s))

\* url.QueryUnescape: [ok, val]; ok is FALSE on a "%" that is not followed
\* by two hexadecimal digits.
RECURSIVE QueryUnescape(_)
QueryUnescape(s) ==
  IF s = <<>> THEN [ok |-> TRUE, val |-> <<>>]
  ELSE IF Head(s) = "%"
    THEN IF Len(s) >= 2 /\ s[2] \in HexCodes
           THEN LET r == QueryUnescape(SubSeq(s, 3, Len(s)))
                IN [ok |-> r.ok, val |-> <<CharOf(s[2])>> \o r.val]
           ELSE [ok |-> FALSE, val |-> <<>>]
    ELSE LET r == QueryUnescape(Tail(s))
             c == IF Head(s) = "+" THEN " " ELSE Head(s)
         IN [ok |-> r.ok, val |-> <<c>> \o r.val]

----------------------------------------------------------------------------
\* Option constructors: each option is a closure returning one fragment.

\* RouteConfigTag without the call to url.QueryEscape.
RouteConfigTagRaw(tag) == <<"r", "=">> \o tag

RouteConfigTag(tag) == <<"r", "=">> \o QueryEscape(tag)

RouteConfigTerse == <<"terse">>

RouteConfigVerbose == <<"verbose">>

\* PredReqStop without the call to url.QueryEscape.
PredReqStopRaw(routeTag, stopTag) ==
  <<"stops", "=">> \o routeTag \o <<"|">> \o stopTag

PredReqStop(routeTag, stopTag) ==
  <<"stops", "=">> \o QueryEscape(routeTag \o <<"|">> \o stopTag)

\* PredReqShortTitles as a bare flag, in the manner of terse and verbose.
PredReqShortTitlesBare == <<"useShortTitles">>

PredReqShortTitles == <<"useShortTitles", "=", "true">>

VehicleLocationRoute(routeTag) == <<"r", "=">> \o QueryEscape(routeTag)

\* VehicleLocationTime without the call to url.QueryEscape.
VehicleLocationTimeRaw(t) == <<"t", "=">> \o t

VehicleLocationTime(t) == <<"t", "=">> \o QueryEscape(t)

\* An option value as the caller built it: the constructor and its arguments.
Opt(k, x, y) == [k |-> k, x |-> x, y |-> y]

RouteConfigParam ==
  { Opt("RouteConfigTag", v, <<>>) : v \in OptValues }
    \cup { Opt("RouteConfigTerse", <<>>, <<>>), Opt("RouteConfigVerbose", <<>>, <<>>) }

PredReqParam ==
  { Opt("PredReqStop", r, s) : r \in OptValues, s \in OptValues }
    \cup { Opt("PredReqShortTitles", <<>>, <<>>) }

VehicleLocationParam ==
  { Opt("VehicleLocationRoute", v, <<>>) : v \in OptValues }
    \cup { Opt("VehicleLocationTime", v, <<>>) : v \in OptValues }

\* cp(): calling the closure.
Call(o) ==
  CASE o.k = "RouteConfigTag" -> RouteConfigTag(o.x)
    [] o.k = "RouteConfigTerse" -> RouteConfigTerse
    [] o.k = "RouteConfigVerbose" -> RouteConfigVerbose
    [] o.k = "PredReqStop" -> PredReqStop(o.x, o.y)
    [] o.k = "PredReqShortTitles" -> PredReqShortTitles
    [] o.k = "VehicleLocationRoute" -> VehicleLocationRoute(o.x)
    [] o.k = "VehicleLocationTime" -> VehicleLocationTime(o.x)

SeqsUpTo(S, n) == UNION { [1..k -> S] : k \in 0..n }

----------------------------------------------------------------------------
\* Request URLs: the query string after
\* "http://webservices.nextbus.com/service/publicXMLFeed?".

AgencyListURL == <<"command", "=", "agencyList">>

RouteListURL(agencyTag) ==
  <<"command", "=", "routeList", "&", "a", "=">> \o agencyTag

RouteConfigURL(agencyTag, configParams) ==
  LET params == << <<"command", "=", "routeConfig">>,
                   <<"a", "=">> \o QueryEscape(agencyTag) >>
                  \o [i \in 1..Len(configParams) |-> Call(configParams[i])]
  IN Join(params, <<"&">>)

StopPredictionsURL(agencyTag, stopID) ==
  <<"command", "=", "predictions", "&", "a", "=">> \o agencyTag
    \o <<"&", "stopId", "=">> \o stopID

PredictionsURL(agencyTag, routeTag, stopTag) ==
  <<"command", "=", "predictions", "&", "a", "=">> \o agencyTag
    \o <<"&", "r", "=">> \o routeTag \o <<"&", "s", "=">> \o stopTag

PredictionsForMultiStopsURL(agencyTag, params) ==
  LET queryParams == << <<"command", "=", "predictionsForMultiStops">>,
                        <<"a", "=">> \o QueryEscape(agencyTag) >>
                       \o [i \in 1..Len(params) |-> Call(params[i])]
  IN Join(queryParams, <<"&">>)

\* timeWasSet left false by the loop.
TimeNeverSet(configParams) == FALSE

\* timeWasSet after the loop over configParams.
TimeWasSet(configParams) ==
  \E i \in 1..Len(configParams) : HasPrefix(Call(configParams[i]), <<"t", "=">>)

VehicleLocationsURL(agencyTag, configParams) ==
  LET params == << <<"command", "=", "vehicleLocations">>,
                   <<"a", "=">> \o QueryEscape(agencyTag) >>
                  \o [i \in 1..Len(configParams) |-> Call(configParams[i])]
      all == IF ~TimeWasSet(configParams)
               THEN Append(params, VehicleLocationTime(<<"0">>))
               ELSE params
  IN Join(all, <<"&">>)

----------------------------------------------------------------------------
\* Operations, their XML schema and their error texts.

Ops ==
  { "GetAgencyList", "GetRouteList", "GetRouteConfig", "GetStopPredictions",
    "GetPredictions", "GetPredictionsForMultiStops", "GetVehicleLocations" }

\* fmt.Errorf("could not fetch ... from nextbus: %v", httpErr)
FetchText(o) ==
  CASE o = "GetAgencyList" -> "could not fetch agencies from nextbus"
    [] o = "GetRouteList" -> "could not fetch routes from nextbus"
    [] o = "GetRouteConfig" -> "could not fetch route config from nextbus"
    [] o = "GetStopPredictions" -> "could not fetch stop predictions from nextbus"
    [] o = "GetPredictions" -> "could not fetch predictions from nextbus"
    [] o = "GetPredictionsForMultiStops" ->
         "could not fetch predictions for multiple stops from nextbus"
    [] o = "GetVehicleLocations" -> "could not fetch vehicle locations from nextbus"

\* fmt.Errorf("could not parse ... response body: %v", readErr)
BodyText(o) ==
  CASE o = "GetAgencyList" -> "could not parse agencies response body"
    [] o = "GetRouteList" -> "could not parse routes response body"
    [] o = "GetRouteConfig" -> "could not parse route config response body"
    [] o = "GetStopPredictions" -> "could not parse stop predictions response body"
    [] o = "GetPredictions" -> "could not parse predictions response body"
    [] o = "GetPredictionsForMultiStops" ->
         "could not parse predictions for multiple stops response body"
    [] o = "GetVehicleLocations" -> "could not parse vehicle locations response body"

\* The decode error given the text of the read error.
XMLTextAsBody(o) == BodyText(o)

\* fmt.Errorf("could not parse ... XML: %v", xmlErr)
XMLText(o) ==
  CASE o = "GetAgencyList" -> "could not parse agencies XML"
    [] o = "GetRouteList" -> "could not parse routes XML"
    [] o = "GetRouteConfig" -> "could not parse route config XML"
    [] o = "GetStopPredictions" -> "could not parse stop predictions XML"
    [] o = "GetPredictions" -> "could not parse predictions XML"
    [] o = "GetPredictionsForMultiStops" ->
         "could not parse predictions for multiple stops XML"
    [] o = "GetVehicleLocations" -> "could not parse vehicle locations XML"

\* The element name of the list field of the operation's envelope struct
\* (AgencyList `xml:"agency"`, RouteList `xml:"route"`, ...).
ListElement(o) ==
  CASE o = "GetAgencyList" -> "agency"
    [] o \in {"GetRouteList", "GetRouteConfig"} -> "route"
    [] o \in {"GetStopPredictions", "GetPredictions", "GetPredictionsForMultiStops"} ->
         "predictions"
    [] o = "GetVehicleLocations" -> "vehicle"

\* An error value: nil, or the text of the format, the text the operand
\* was formatted to, and the error errors.Unwrap gives ("" for none).
NilError == [nil |-> TRUE, text |-> "", cause |-> "", unwrap |-> ""]

\* fmt.Errorf(text + ": %v", cause): %v formats the operand into the
\* message; the new error does not wrap it.
Errorf(text, cause) == [nil |-> FALSE, text |-> text, cause |-> cause, unwrap |-> ""]

----------------------------------------------------------------------------
\* Responses.  A response is its status code and the document its body
\* holds: the root element's name, whether the text is well-formed XML, and
\* the root's children in document order.  An element is its name, the value
\* of its identifying attribute (tag, id, time, ...) and its child elements
\* in document order.

El(name, attr, kids) == [name |-> name, attr |-> attr, kids |-> kids]

Leaf(name, attr) == El(name, attr, <<>>)

\* An envelope in the shape of the feed's documents, with repeated and
\* unsorted entries, and a stop marker (9999) that names no stop of its route.
FeedDocument ==
  << Leaf("agency", "beta"), Leaf("agency", "alpha"), Leaf("agency", "beta"),
     Leaf("vehicle", "2222"),
     El("route", "1",
        << Leaf("stop", "1234"), Leaf("stop", "1123"),
           El("direction", "1out",
              << Leaf("stop", "1123"), Leaf("stop", "9999"), Leaf("stop", "1123") >>),
           Leaf("stop", "1234"),
           El("path", "", << Leaf("point", "p2"), Leaf("point", "p1") >>),
           El("direction", "1in", << Leaf("stop", "1234") >>),
           El("path", "", << Leaf("point", "p3") >>) >>),
     El("predictions", "1124",
        << El("direction", "Outbound",
              << Leaf("prediction", "563"), Leaf("prediction", "181") >>),
           Leaf("message", "m2"),
           El("direction", "Inbound", <<>>),
           Leaf("message", "m1") >>),
     Leaf("vehicle", "1111"), Leaf("lastTime", "1234567890123"),
     Leaf("route", "2"), Leaf("predictions", "1123"), Leaf("vehicle", "2222") >>

Bodies ==
  { [status |-> 200, root |-> "body", wellFormed |-> FALSE, children |-> <<>>],
    [status |-> 500, root |-> "html", wellFormed |-> TRUE, children |-> <<>>],
    [status |-> 200, root |-> "body", wellFormed |-> TRUE, children |-> <<>>],
    [status |-> 404, root |-> "body", wellFormed |-> TRUE,
     children |-> << Leaf("Error", "agency parameter is not valid") >>],
    [status |-> 200, root |-> "body", wellFormed |-> TRUE, children |-> FeedDocument] }

\* What ioutil.ReadAll hands back: the document's bytes, all of them
\* (complete) or a proper prefix of them.
NoData == [doc |-> [status |-> 0, root |-> "", wellFormed |-> FALSE, children |-> <<>>],
           complete |-> FALSE]

\* xml.Unmarshal fails on text that is not a whole well-formed document and
\* on a root element other than the XMLName `xml:"body"` of the envelope.
XMLError(d) ==
  \/ ~d.complete
  \/ ~d.doc.wellFormed
  \/ d.doc.root # "body"

\* The slice fields of each struct: the element name of the field's xml tag
\* and the struct its entries are decoded into.
Field(elem, type) == [elem |-> elem, type |-> type]

Schema(type) ==
  CASE type = "RouteConfig" ->
         [StopList |-> Field("stop", "Stop"),
          DirList |-> Field("direction", "Direction"),
          PathList |-> Field("path", "Path")]
    [] type = "Direction" -> [StopMarkerList |-> Field("stop", "StopMarker")]
    [] type = "Path" -> [PointList |-> Field("point", "Point")]
    [] type = "PredictionData" ->
         [PredictionDirectionList |-> Field("direction", "PredictionDirection"),
          MessageList |-> Field("message", "Message")]
    [] type = "PredictionDirection" -> [PredictionList |-> Field("prediction", "Prediction")]
    [] OTHER -> <<>>

\* The struct of the entries of the operation's list.
ListType(o) ==
  CASE o = "GetAgencyList" -> "Agency"
    [] o = "GetRouteList" -> "Route"
    [] o = "GetRouteConfig" -> "RouteConfig"
    [] o \in {"GetStopPredictions", "GetPredictions", "GetPredictionsForMultiStops"} ->
         "PredictionData"
    [] o = "GetVehicleLocations" -> "VehicleLocation"

\* A slice field that puts each new entry in front of the earlier ones.
MatchingPrepended(kids, name) ==
  LET m == SelectSeq(kids, LAMBDA e : e.name = name)
  IN [i \in 1..Len(m) |-> m[Len(m) + 1 - i]]

\* A slice field that takes every descendant of the field's element name,
\* at any depth, in document order.
RECURSIVE MatchingDeep(_, _)
MatchingDeep(kids, name) ==
  IF kids = <<>> THEN <<>>
  ELSE (IF Head(kids).name = name THEN << Head(kids) >> ELSE <<>>)
         \o MatchingDeep(Head(kids).kids, name)
         \o MatchingDeep(Tail(kids), name)

\* The child elements a slice field takes: the direct children of the
\* field's element name, in document order; a slice field appends.
Matching(kids, name) == SelectSeq(kids, LAMBDA e : e.name = name)

\* xml.Unmarshal of one element into a struct: its attribute, and every
\* slice field filled from the element's own children; children no field
\* names are skipped.
RECURSIVE DecodeStruct(_, _)
DecodeStruct(type, e) ==
  [XMLName |-> e.name,
   Tag |-> e.attr,
   lists |-> [f \in DOMAIN Schema(type) |->
                LET m == Matching(e.kids, Schema(type)[f].elem)
                IN [i \in 1..Len(m) |-> DecodeStruct(Schema(type)[f].type, m[i])]]]

\* The slice field of the envelope.
DecodeList(d, name, type) ==
  LET kids == Matching(d.doc.children, name)
  IN [i \in 1..Len(kids) |-> DecodeStruct(type, kids[i])]

\* LocationResponse.LastTime: a struct field, set by each lastTime child.
DecodeLastTime(d) ==
  LET kids == Matching(d.doc.children, "lastTime")
  IN IF kids = <<>> THEN [XMLName |-> "", Time |-> ""]
     ELSE [XMLName |-> "lastTime", Time |-> kids[Len(kids)].attr]

\* A returned result.  nil: the nil slice or the nil *LocationResponse.  A
\* slice no element was appended to is the nil slice.
NilResult == [nil |-> TRUE, list |-> <<>>, lastTime |-> [XMLName |-> "", Time |-> ""]]

Decoded(o, d) ==
  IF o = "GetVehicleLocations"
    THEN [nil |-> FALSE, list |-> DecodeList(d, "vehicle", "VehicleLocation"),
          lastTime |-> DecodeLastTime(d)]
    ELSE LET l == DecodeList(d, ListElement(o), ListType(o))
         IN [nil |-> (l = <<>>), list |-> l, lastTime |-> [XMLName |-> "", Time |-> ""]]

----------------------------------------------------------------------------
\* State: one invocation per process.

VARIABLES
  pc,        \* "idle", "get" (GET issued), "read", "decode", "done" (returned)
  op,        \* the operation invoked
  args,      \* its arguments
  url,       \* the query string of the request URL handed to httpClient.Get
  httpErr,   \* the transport returned an error
  readErr,   \* ioutil.ReadAll returned an error
  body,      \* resp.Body: the document the transport serves
  data,      \* the bytes ReadAll returned
  bodyOpen,  \* resp.Body is held open
  result,    \* the returned result
  err,       \* the returned error
  gets,      \* calls of httpClient.Get
  reads,     \* calls of ioutil.ReadAll
  decodes,   \* calls of xml.Unmarshal
  closes,    \* calls of resp.Body.Close
  httpClient \* Client.httpClient: the transport every invocation uses

vars == << pc, op, args, url, httpErr, readErr, body, data, bodyOpen,
           result, err, gets, reads, decodes, closes, httpClient >>

NoArgs == [agencyTag |-> <<>>, routeTag |-> <<>>, stopTag |-> <<>>,
           stopID |-> <<>>, params |-> <<>>]

Init ==
  /\ pc = [p \in Procs |-> "idle"]
  /\ op = [p \in Procs |-> ""]
  /\ args = [p \in Procs |-> NoArgs]
  /\ url = [p \in Procs |-> <<>>]
  /\ httpErr = [p \in Procs |-> FALSE]
  /\ readErr = [p \in Procs |-> FALSE]
  /\ body = [p \in Procs |-> NoData.doc]
  /\ data = [p \in Procs |-> NoData]
  /\ bodyOpen = [p \in Procs |-> FALSE]
  /\ result = [p \in Procs |-> NilResult]
  /\ err = [p \in Procs |-> NilError]
  /\ gets = [p \in Procs |-> 0]
  /\ reads = [p \in Procs |-> 0]
  /\ decodes = [p \in Procs |-> 0]
  /\ closes = [p \in Procs |-> 0]
  /\ httpClient = "transport"

\* c.httpClient.Get(u): the request is handed to the transport.
Get(p, o, a, u) ==
  /\ pc' = [pc EXCEPT ![p] = "get"]
  /\ op' = [op EXCEPT ![p] = o]
  /\ args' = [args EXCEPT ![p] = a]
  /\ url' = [url EXCEPT ![p] = u]
  /\ gets' = [gets EXCEPT ![p] = @ + 1]
  /\ UNCHANGED << httpClient, httpErr, readErr, body, data, bodyOpen, result, err,
                  reads, decodes, closes >>

GetAgencyList(p) ==
  /\ pc[p] = "idle"
  /\ Get(p, "GetAgencyList", NoArgs, AgencyListURL)

GetRouteList(p, agencyTag) ==
  /\ pc[p] = "idle"
  /\ Get(p, "GetRouteList", [NoArgs EXCEPT !.agencyTag = agencyTag],
         RouteListURL(agencyTag))

GetRouteConfig(p, agencyTag, configParams) ==
  /\ pc[p] = "idle"
  /\ Get(p, "GetRouteConfig",
         [NoArgs EXCEPT !.agencyTag = agencyTag, !.params = configParams],
         RouteConfigURL(agencyTag, configParams))

GetStopPredictions(p, agencyTag, stopID) ==
  /\ pc[p] = "idle"
  /\ Get(p, "GetStopPredictions",
         [NoArgs EXCEPT !.agencyTag = agencyTag, !.stopID = stopID],
         StopPredictionsURL(agencyTag, stopID))

GetPredictions(p, agencyTag, routeTag, stopTag) ==
  /\ pc[p] = "idle"
  /\ Get(p, "GetPredictions",
         [NoArgs EXCEPT !.agencyTag = agencyTag, !.routeTag = routeTag,
                        !.stopTag = stopTag],
         PredictionsURL(agencyTag, routeTag, stopTag))

GetPredictionsForMultiStops(p, agencyTag, params) ==
  /\ pc[p] = "idle"
  /\ Get(p, "GetPredictionsForMultiStops",
         [NoArgs EXCEPT !.agencyTag = agencyTag, !.params = params],
         PredictionsForMultiStopsURL(agencyTag, params))

GetVehicleLocations(p, agencyTag, configParams) ==
  /\ pc[p] = "idle"
  /\ Get(p, "GetVehicleLocations",
         [NoArgs EXCEPT !.agencyTag = agencyTag, !.params = configParams],
         VehicleLocationsURL(agencyTag, configParams))

\* A return with no deferred close registered.
ReturnNoClose(p, r, e) ==
  /\ pc' = [pc EXCEPT ![p] = "done"]
  /\ result' = [result EXCEPT ![p] = r]
  /\ err' = [err EXCEPT ![p] = e]
  /\ UNCHANGED << closes, bodyOpen >>

\* return r, e: the deferred resp.Body.Close() runs when one was registered.
Return(p, r, e) ==
  /\ pc' = [pc EXCEPT ![p] = "done"]
  /\ result' = [result EXCEPT ![p] = r]
  /\ err' = [err EXCEPT ![p] = e]
  /\ closes' = [closes EXCEPT ![p] = IF bodyOpen[p] THEN @ + 1 ELSE @]
  /\ bodyOpen' = [bodyOpen EXCEPT ![p] = FALSE]

\* The transport's error left unchecked: the invocation goes on to the read.
HttpErrorUnchecked(p) ==
  /\ pc[p] = "get"
  /\ httpErr' = [httpErr EXCEPT ![p] = TRUE]
  /\ pc' = [pc EXCEPT ![p] = "read"]
  /\ bodyOpen' = [bodyOpen EXCEPT ![p] = TRUE]
  /\ UNCHANGED << httpClient, op, args, url, readErr, body, data, result, err,
                  gets, reads, decodes, closes >>

\* A transport error answered by issuing the request again.
HttpErrorRetry(p) ==
  /\ pc[p] = "get"
  /\ httpErr' = [httpErr EXCEPT ![p] = TRUE]
  /\ gets' = [gets EXCEPT ![p] = @ + 1]
  /\ UNCHANGED << httpClient, pc, op, args, url, readErr, body, data, bodyOpen, result, err,
                  reads, decodes, closes >>

\* httpErr != nil: return nil, fmt.Errorf("could not fetch ...: %v", httpErr)
HttpError(p) ==
  /\ pc[p] = "get"
  /\ httpErr' = [httpErr EXCEPT ![p] = TRUE]
  /\ Return(p, NilResult, Errorf(FetchText(op[p]), "httpErr"))
  /\ UNCHANGED << httpClient, op, args, url, readErr, body, data, gets, reads, decodes >>

\* httpErr == nil: defer resp.Body.Close()
HttpResponse(p, b) ==
  /\ pc[p] = "get"
  /\ pc' = [pc EXCEPT ![p] = "read"]
  /\ body' = [body EXCEPT ![p] = b]
  /\ bodyOpen' = [bodyOpen EXCEPT ![p] = TRUE]
  /\ UNCHANGED << httpClient, op, args, url, httpErr, readErr, data, result, err,
                  gets, reads, decodes, closes >>

\* The test on readErr that returns before the decode:
\* `readErr != nil` in six operations, `readErr == nil` in GetVehicleLocations.
ReturnsAfterRead(o, failed) ==
  IF o = "GetVehicleLocations" THEN ~failed ELSE failed

\* ReadAll into a buffer shared by every invocation of the package.
ReadAllShared(p, failed, complete) ==
  /\ pc[p] = "read"
  /\ failed \/ complete
  /\ reads' = [reads EXCEPT ![p] = @ + 1]
  /\ readErr' = [readErr EXCEPT ![p] = failed]
  /\ data' = [q \in Procs |-> [doc |-> body[p], complete |-> complete]]
  /\ IF ReturnsAfterRead(op[p], failed)
       THEN Return(p, NilResult,
                   Errorf(BodyText(op[p]), IF failed THEN "readErr" ELSE "<nil>"))
       ELSE /\ pc' = [pc EXCEPT ![p] = "decode"]
            /\ UNCHANGED << result, err, closes, bodyOpen >>
  /\ UNCHANGED << httpClient, op, args, url, httpErr, body, gets, decodes >>

\* body, readErr := ioutil.ReadAll(resp.Body) and the test on readErr.
\* A failed read has delivered all of the document or only a prefix of it.
ReadAll(p, failed, complete) ==
  /\ pc[p] = "read"
  /\ failed \/ complete
  /\ reads' = [reads EXCEPT ![p] = @ + 1]
  /\ readErr' = [readErr EXCEPT ![p] = failed]
  /\ data' = [data EXCEPT ![p] = [doc |-> body[p], complete |-> complete]]
  /\ IF ReturnsAfterRead(op[p], failed)
       THEN Return(p, NilResult,
                   Errorf(BodyText(op[p]), IF failed THEN "readErr" ELSE "<nil>"))
       ELSE /\ pc' = [pc EXCEPT ![p] = "decode"]
            /\ UNCHANGED << result, err, closes, bodyOpen >>
  /\ UNCHANGED << httpClient, op, args, url, httpErr, body, gets, decodes >>

\* A decode that turns a response whose status is not 200 into an error.
UnmarshalStatusChecked(p) ==
  /\ pc[p] = "decode"
  /\ decodes' = [decodes EXCEPT ![p] = @ + 1]
  /\ IF XMLError(data[p]) \/ body[p].status # 200
       THEN Return(p, NilResult, Errorf(XMLText(op[p]), "xmlErr"))
       ELSE Return(p, Decoded(op[p], data[p]), NilError)
  /\ UNCHANGED << httpClient, op, args, url, httpErr, readErr, body, data, gets, reads >>

\* A decode that returns what was decoded so far together with the error.
UnmarshalPartial(p) ==
  /\ pc[p] = "decode"
  /\ decodes' = [decodes EXCEPT ![p] = @ + 1]
  /\ IF XMLError(data[p])
       THEN Return(p, Decoded(op[p], data[p]), Errorf(XMLText(op[p]), "xmlErr"))
       ELSE Return(p, Decoded(op[p], data[p]), NilError)
  /\ UNCHANGED << httpClient, op, args, url, httpErr, readErr, body, data, gets, reads >>

\* xmlErr := xml.Unmarshal(body, &a) and the two returns after it.
Unmarshal(p) ==
  /\ pc[p] = "decode"
  /\ decodes' = [decodes EXCEPT ![p] = @ + 1]
  /\ IF XMLError(data[p])
       THEN Return(p, NilResult, Errorf(XMLText(op[p]), "xmlErr"))
       ELSE Return(p, Decoded(op[p], data[p]), NilError)
  /\ UNCHANGED << httpClient, op, args, url, httpErr, readErr, body, data, gets, reads >>

Invoke(p) ==
  \/ GetAgencyList(p)
  \/ \E a \in Values : GetRouteList(p, a)
  \/ \E a \in Values, cps \in SeqsUpTo(RouteConfigParam, MaxOpts) :
       GetRouteConfig(p, a, cps)
  \/ \E a \in Values, s \in Values : GetStopPredictions(p, a, s)
  \/ \E a \in Values, r \in Values, s \in Values : GetPredictions(p, a, r, s)
  \/ \E a \in Values, ps \in SeqsUpTo(PredReqParam, MaxOpts) :
       GetPredictionsForMultiStops(p, a, ps)
  \/ \E a \in Values, cps \in SeqsUpTo(VehicleLocationParam, MaxOpts) :
       GetVehicleLocations(p, a, cps)

Step(p) ==
  \/ Invoke(p)
  \/ HttpError(p)
  \/ \E b \in Bodies : HttpResponse(p, b)
  \/ \E failed \in BOOLEAN, complete \in BOOLEAN : ReadAll(p, failed, complete)
  \/ Unmarshal(p)

\* One caller.
Next == Step(1)

Spec == Init /\ [][Next]_vars

\* Concurrent callers of one Client: every process invokes one operation
\* and the steps of the invocations interleave freely.
ConcValue == <<"alpha">>

ConcBodies == { b \in Bodies : b.root = "body" /\ (b.wellFormed => b.children # <<>>) }

ConcInvoke(p) ==
  \/ GetAgencyList(p)
  \/ GetRouteList(p, ConcValue)
  \/ GetRouteConfig(p, ConcValue,
                    << Opt("RouteConfigTag", <<"N">>, <<>>),
                       Opt("RouteConfigTerse", <<>>, <<>>) >>)
  \/ GetStopPredictions(p, ConcValue, ConcValue)
  \/ GetPredictions(p, ConcValue, ConcValue, ConcValue)
  \/ GetPredictionsForMultiStops(p, ConcValue,
                                 << Opt("PredReqStop", <<"N">>, <<"N">>) >>)
  \/ \E cps \in { <<>>, << Opt("VehicleLocationTime", <<"N">>, <<>>) >> } :
       GetVehicleLocations(p, ConcValue, cps)

ConcStep(p) ==
  \/ ConcInvoke(p)
  \/ HttpError(p)
  \/ \E b \in ConcBodies : HttpResponse(p, b)
  \/ \E failed \in BOOLEAN, complete \in BOOLEAN : ReadAll(p, failed, complete)
  \/ Unmarshal(p)

ConcNext == \E p \in Procs : ConcStep(p)

ConcSpec == Init /\ [][ConcNext]_vars

----------------------------------------------------------------------------
\* Reading a request URL back: the query split on "&", each fragment split
\* on its first "=", key and value percent-decoded (as url.ParseQuery does).

IndexOf(s, c) ==
  IF \E i \in 1..Len(s) : s[i] = c
    THEN CHOOSE i \in 1..Len(s) : s[i] = c /\ \A j \in 1..(i - 1) : s[j] # c
    ELSE 0

RECURSIVE Split(_, _)
Split(s, c) ==
  LET i == IndexOf(s, c)
  IN IF i = 0 THEN <<s>>
     ELSE <<SubSeq(s, 1, i - 1)>> \o Split(SubSeq(s, i + 1, Len(s)), c)

Fragments(p) == Split(url[p], "&")

Key(f) ==
  LET i == IndexOf(f, "=") IN IF i = 0 THEN f ELSE SubSeq(f, 1, i - 1)

Value(f) ==
  LET i == IndexOf(f, "=") IN IF i = 0 THEN <<>> ELSE SubSeq(f, i + 1, Len(f))

Param(k, v) == [key |-> k, val |-> v]

\* A fragment as the feed reads it; a fragment that does not decode reads
\* as the pair of the undecodable key "%" and no value.
ParseFragment(f) ==
  LET k == QueryUnescape(Key(f))
      v == QueryUnescape(Value(f))
  IN IF k.ok /\ v.ok THEN Param(k.val, v.val) ELSE Param(<<"%">>, <<>>)

ParseQuery(p) ==
  LET fs == Fragments(p) IN [i \in 1..Len(fs) |-> ParseFragment(fs[i])]

\* The parameter an option stands for.
OptParam(o) ==
  CASE o.k \in {"RouteConfigTag", "VehicleLocationRoute"} -> Param(<<"r">>, o.x)
    [] o.k = "RouteConfigTerse" -> Param(<<"terse">>, <<>>)
    [] o.k = "RouteConfigVerbose" -> Param(<<"verbose">>, <<>>)
    [] o.k = "PredReqStop" -> Param(<<"stops">>, o.x \o <<"|">> \o o.y)
    [] o.k = "PredReqShortTitles" -> Param(<<"useShortTitles">>, <<"true">>)
    [] o.k = "VehicleLocationTime" -> Param(<<"t">>, o.x)

OptParams(ps) == [i \in 1..Len(ps) |-> OptParam(ps[i])]

IsTime(o) == o.k = "VehicleLocationTime"

TimeOptions(p) == SelectSeq(args[p].params, IsTime)

\* The parameters the caller of an operation means to send.
Intended(p) ==
  LET a == args[p]
      agency == Param(<<"a">>, a.agencyTag)
  IN CASE op[p] = "GetAgencyList" -> << Param(<<"command">>, <<"agencyList">>) >>
       [] op[p] = "GetRouteList" ->
            << Param(<<"command">>, <<"routeList">>), agency >>
       [] op[p] = "GetRouteConfig" ->
            << Param(<<"command">>, <<"routeConfig">>), agency >> \o OptParams(a.params)
       [] op[p] = "GetStopPredictions" ->
            << Param(<<"command">>, <<"predictions">>), agency,
               Param(<<"stopId">>, a.stopID) >>
       [] op[p] = "GetPredictions" ->
            << Param(<<"command">>, <<"predictions">>), agency,
               Param(<<"r">>, a.routeTag), Param(<<"s">>, a.stopTag) >>
       [] op[p] = "GetPredictionsForMultiStops" ->
            << Param(<<"command">>, <<"predictionsForMultiStops">>), agency >>
              \o OptParams(a.params)
       [] op[p] = "GetVehicleLocations" ->
            << Param(<<"command">>, <<"vehicleLocations">>), agency >>
              \o OptParams(a.params)
              \o (IF TimeOptions(p) = <<>> THEN << Param(<<"t">>, <<"0">>) >> ELSE <<>>)

WithKey(q, k) == SelectSeq(q, LAMBDA x : x.key = k)

\* The request of operation o is with the transport: url[p] is what Get was given.
Called(p, o) == pc[p] = "get" /\ op[p] = o

Returned(p) == pc[p] = "done"

----------------------------------------------------------------------------
\* C1: when the transport returns a response whose body is read to the end
\* without error and parses as the vehicle-locations envelope,
\* GetVehicleLocations returns a non-nil LocationResponse (every vehicle
\* record and the lastTime timestamp) and a nil error.
C1_VehicleLocationsSuccess ==
  \A p \in Procs :
    ( /\ Returned(p) /\ op[p] = "GetVehicleLocations"
      /\ ~httpErr[p] /\ reads[p] = 1 /\ ~readErr[p]
      /\ ~XMLError([doc |-> body[p], complete |-> TRUE]) )
    => /\ ~result[p].nil
       /\ err[p].nil
       /\ result[p].list
            = DecodeList([doc |-> body[p], complete |-> TRUE], "vehicle", "VehicleLocation")
       /\ result[p].lastTime = DecodeLastTime([doc |-> body[p], complete |-> TRUE])

\* C2: in every operation, when the GET succeeds and reading the body fails,
\* the operation returns a nil result and a non-nil error and never decodes
\* the partially read body.
C2_ReadFailure ==
  \A p \in Procs :
    (Returned(p) /\ ~httpErr[p] /\ readErr[p])
    => /\ result[p].nil
       /\ ~err[p].nil
       /\ decodes[p] = 0

\* C3: in every operation, when the transport's GET returns an error, the
\* operation returns a nil result and the non-nil transport error, and the
\* invocation performs no body read, no body close and no XML decode.
C3_TransportFailure ==
  \A p \in Procs :
    (Returned(p) /\ httpErr[p])
    => /\ result[p] = NilResult
       /\ err[p] = Errorf(FetchText(op[p]), "httpErr")
       /\ reads[p] = 0
       /\ closes[p] = 0
       /\ decodes[p] = 0

C3_Witness ==
  \E p \in Procs : Returned(p) /\ httpErr[p] /\ gets[p] = 1 /\ ~err[p].nil

\* C4: in every operation, when the body is read without error but does not
\* parse as the operation's schema, the operation returns a nil result and a
\* non-nil decode error whose text names the command being decoded; the
\* decode-error texts of any two operations differ.
C4_DecodeFailure ==
  /\ \A o1 \in Ops, o2 \in Ops : o1 # o2 => XMLText(o1) # XMLText(o2)
  /\ \A p \in Procs :
       ( /\ Returned(p) /\ ~httpErr[p] /\ reads[p] = 1 /\ ~readErr[p]
         /\ XMLError([doc |-> body[p], complete |-> TRUE]) )
       => /\ result[p].nil
          /\ err[p] = Errorf(XMLText(op[p]), "xmlErr")

\* C5: when no VehicleLocationTime option is passed to GetVehicleLocations,
\* the request URL has exactly one t parameter and its value is 0; when at
\* least one is passed, the URL holds one fragment per option after the
\* command and agency fragments, so no default t=0 was added.
C5_DefaultSinceTime ==
  \A p \in Procs :
    Called(p, "GetVehicleLocations")
    => LET q == ParseQuery(p)
           ts == WithKey(q, <<"t">>)
       IN IF TimeOptions(p) = <<>>
            THEN ts = << Param(<<"t">>, <<"0">>) >>
            ELSE /\ Len(q) = 2 + Len(args[p].params)
                 /\ Len(ts) = Len(TimeOptions(p))

C5_Witness ==
  \E p \in Procs :
    /\ Called(p, "GetVehicleLocations")
    /\ Len(args[p].params) = 2
    /\ TimeOptions(p) = <<>>
    /\ Fragments(p)[Len(Fragments(p))] = <<"t", "=", "0">>

\* C6 as claimed: with two or more VehicleLocationTime options the request
\* URL carries at most one t parameter, whose value is that of the last
\* VehicleLocationTime option supplied.
C6_LastSinceTimeWins ==
  \A p \in Procs :
    (Called(p, "GetVehicleLocations") /\ Len(TimeOptions(p)) >= 2)
    => LET ts == WithKey(ParseQuery(p), <<"t">>)
           last == TimeOptions(p)[Len(TimeOptions(p))]
       IN /\ Len(ts) <= 1
          /\ Len(ts) = 1 => ts[1].val = last.x

\* C6 as amended: with two or more VehicleLocationTime options the request
\* URL carries one t parameter per VehicleLocationTime option, in the order
\* supplied, each with the value of its option; the last t parameter is that
\* of the last VehicleLocationTime option.
C6_EverySinceTimeSent ==
  \A p \in Procs :
    (Called(p, "GetVehicleLocations") /\ Len(TimeOptions(p)) >= 2)
    => LET ts == WithKey(ParseQuery(p), <<"t">>)
       IN /\ ts = OptParams(TimeOptions(p))
          /\ ts[Len(ts)].val = TimeOptions(p)[Len(TimeOptions(p))].x

C6_Witness ==
  \E p \in Procs :
    /\ Called(p, "GetVehicleLocations")
    /\ Len(TimeOptions(p)) >= 2
    /\ TimeOptions(p)[1].x # TimeOptions(p)[2].x

\* C7: in every operation, every caller-supplied value appears
\* percent-encoded in the request URL: splitting the query on "&" yields
\* exactly the intended parameters and decoding each yields the value given.
C7_ValuesPercentEncoded ==
  \A p \in Procs : pc[p] = "get" => ParseQuery(p) = Intended(p)

\* C8: the GetRouteConfig URL is command=routeConfig, then a=<agency>, then
\* exactly one fragment per option in the order supplied: r=<tag> for
\* RouteConfigTag, terse, verbose; there are as many r parameters as
\* RouteConfigTag options (none without one), and every combination of
\* options is sent without the client raising an error.
C8_RouteConfigOptions ==
  \A p \in Procs :
    Called(p, "GetRouteConfig")
    => LET fs == Fragments(p)
           ps == args[p].params
           q == ParseQuery(p)
       IN /\ gets[p] = 1
          /\ Len(fs) = 2 + Len(ps)
          /\ fs[1] = <<"command", "=", "routeConfig">>
          /\ q[2] = Param(<<"a">>, args[p].agencyTag)
          /\ \A i \in 1..Len(ps) :
               CASE ps[i].k = "RouteConfigTag" ->
                      /\ HasPrefix(fs[i + 2], <<"r", "=">>)
                      /\ q[i + 2] = Param(<<"r">>, ps[i].x)
                      /\ ps[i].x = <<"N">> => fs[i + 2] = <<"r", "=", "N">>
                 [] ps[i].k = "RouteConfigTerse" -> fs[i + 2] = <<"terse">>
                 [] ps[i].k = "RouteConfigVerbose" -> fs[i + 2] = <<"verbose">>
          /\ Len(WithKey(q, <<"r">>))
               = Len(SelectSeq(ps, LAMBDA o : o.k = "RouteConfigTag"))

C8_Witness ==
  \E p \in Procs :
    /\ Called(p, "GetRouteConfig")
    /\ \E i, j \in 1..Len(args[p].params) :
         /\ args[p].params[i].k = "RouteConfigTerse"
         /\ args[p].params[j].k = "RouteConfigTag"
         /\ args[p].params[j].x # <<"N">>

\* C9: for k PredReqStop(route_i, stop_i) options passed to
\* GetPredictionsForMultiStops the request URL has exactly k stops
\* parameters, in the order supplied, and the percent-decoded value of the
\* i-th is route_i, then "|", then stop_i.
C9_MultiStopEncoding ==
  \A p \in Procs :
    Called(p, "GetPredictionsForMultiStops")
    => LET q == ParseQuery(p)
           ps == args[p].params
           stops == SelectSeq(ps, LAMBDA o : o.k = "PredReqStop")
           sent == WithKey(q, <<"stops">>)
       IN /\ Len(sent) = Len(stops)
          /\ \A i \in 1..Len(stops) :
               sent[i].val = stops[i].x \o <<"|">> \o stops[i].y
          /\ Len(q) = 2 + Len(ps)
          /\ \A i \in 1..Len(ps) :
               ps[i].k = "PredReqStop" => q[i + 2].key = <<"stops">>

C9_Witness ==
  \E p \in Procs :
    /\ Called(p, "GetPredictionsForMultiStops")
    /\ Len(args[p].params) = 2
    /\ \A i \in 1..2 : args[p].params[i].k = "PredReqStop"
    /\ args[p].params[1].x # <<"N">>
    /\ args[p].params[1] # args[p].params[2]

\* C10: in every invocation in which the transport returns a response, the
\* body is closed exactly once before the method returns, on the success,
\* read-error and decode-error paths alike; a body is never closed twice and
\* no invocation has returned while holding an open body.
C10_BodyReleased ==
  \A p \in Procs :
    /\ closes[p] <= 1
    /\ Returned(p) => ~bodyOpen[p]
    /\ (Returned(p) /\ ~httpErr[p]) => closes[p] = 1
    /\ (~Returned(p)) => closes[p] = 0

C10_Witness ==
  \E p \in Procs :
    /\ Returned(p) /\ ~httpErr[p] /\ ~readErr[p] /\ decodes[p] = 1
    /\ err[p] = Errorf(XMLText(op[p]), "xmlErr")
    /\ closes[p] = 1

----------------------------------------------------------------------------
\* C11: every invocation of every operation issues exactly one GET to the
\* transport, whether it ends in success, a transport error, a read error
\* or a decode error; no failure causes a second request.
C11_SingleAttempt ==
  \A p \in Procs :
    /\ pc[p] = "idle" => gets[p] = 0
    /\ pc[p] # "idle" => gets[p] = 1
    /\ reads[p] <= 1
    /\ decodes[p] <= 1

C11_Witness ==
  \E p \in Procs :
    /\ Returned(p) /\ ~httpErr[p] /\ reads[p] = 1 /\ decodes[p] = 1
    /\ err[p].text = XMLText(op[p])
    /\ gets[p] = 1

----------------------------------------------------------------------------
\* An invocation run alone: the URL its operation builds from its own
\* arguments, and the (result, error) its own transport outcome leads to.

AloneURL(o, a) ==
  CASE o = "GetAgencyList" -> AgencyListURL
    [] o = "GetRouteList" -> RouteListURL(a.agencyTag)
    [] o = "GetRouteConfig" -> RouteConfigURL(a.agencyTag, a.params)
    [] o = "GetStopPredictions" -> StopPredictionsURL(a.agencyTag, a.stopID)
    [] o = "GetPredictions" -> PredictionsURL(a.agencyTag, a.routeTag, a.stopTag)
    [] o = "GetPredictionsForMultiStops" ->
         PredictionsForMultiStopsURL(a.agencyTag, a.params)
    [] o = "GetVehicleLocations" -> VehicleLocationsURL(a.agencyTag, a.params)

AloneReturn(o, getFailed, readFailed, b, complete) ==
  LET d == [doc |-> b, complete |-> complete]
  IN IF getFailed THEN << NilResult, Errorf(FetchText(o), "httpErr") >>
     ELSE IF ReturnsAfterRead(o, readFailed)
       THEN << NilResult,
               Errorf(BodyText(o), IF readFailed THEN "readErr" ELSE "<nil>") >>
     ELSE IF XMLError(d) THEN << NilResult, Errorf(XMLText(o), "xmlErr") >>
     ELSE << Decoded(o, d), NilError >>

\* Everything an invocation owns.
Local(p) ==
  << pc[p], op[p], args[p], url[p], httpErr[p], readErr[p], body[p], data[p],
     bodyOpen[p], result[p], err[p], gets[p], reads[p], decodes[p], closes[p] >>

C12_AsIfAlone ==
  /\ httpClient = "transport"
  /\ \A p \in Procs :
       /\ pc[p] # "idle" => url[p] = AloneURL(op[p], args[p])
       /\ pc[p] \in {"read", "decode"} => result[p] = NilResult /\ err[p] = NilError
       /\ pc[p] = "decode" => data[p].doc = body[p]
       /\ Returned(p) =>
            << result[p], err[p] >>
              = AloneReturn(op[p], httpErr[p], readErr[p], body[p],
                            reads[p] = 1 /\ data[p].complete)

C12_OwnDataOnly ==
  /\ httpClient' = httpClient
  /\ \A p \in Procs, q \in Procs :
       (p # q /\ Local(p)' # Local(p)) => Local(q)' = Local(q)

\* C12: in every interleaving of the invocations of several callers on one
\* Client, each invocation's request URL, result and error are those it has
\* when run alone, the Client's transport reference never changes, and no
\* step of one invocation changes anything that belongs to another.
C12_ConcurrentUse == [] C12_AsIfAlone /\ [][C12_OwnDataOnly]_vars

C12_Witness ==
  /\ Returned(1) /\ Returned(2)
  /\ op[1] = "GetVehicleLocations" /\ op[2] = "GetRouteConfig"
  /\ url[1] # url[2]
  /\ ~err[1].nil /\ err[2].nil /\ ~result[2].nil
  /\ body[1] # body[2]

----------------------------------------------------------------------------
\* Reading a document: the elements of one name among a list of siblings,
\* in document order.
RECURSIVE Named(_, _)
Named(els, name) ==
  IF els = <<>> THEN <<>>
  ELSE IF Head(els).name = name THEN << Head(els) >> \o Named(Tail(els), name)
  ELSE Named(Tail(els), name)

Attrs(els) == [i \in 1..Len(els) |-> els[i].attr]

TagsOf(list) == [i \in 1..Len(list) |-> list[i].Tag]

\* The invocation decoded its body and returned the decoded value.
DecodedOK(p) == Returned(p) /\ decodes[p] = 1 /\ err[p].nil

\* The decoded records are the given elements, one for one and in the same
\* order, and so are the entries of each of their lists, at every depth.
RECURSIVE InDocumentOrder(_, _, _)
InDocumentOrder(type, list, els) ==
  /\ Len(list) = Len(els)
  /\ \A i \in 1..Len(els) :
       /\ list[i].XMLName = els[i].name
       /\ list[i].Tag = els[i].attr
       /\ \A f \in DOMAIN Schema(type) :
            InDocumentOrder(Schema(type)[f].type, list[i].lists[f],
                            Named(els[i].kids, Schema(type)[f].elem))

\* C13: for every successfully decoded response with N child elements of
\* the operation's kind under the envelope, the returned list has exactly N
\* entries, in document order, nothing sorted, dropped or merged; so have
\* the nested lists (stops, directions, stop markers, paths, points,
\* prediction directions, predictions, messages).
C13_OrderPreserved ==
  \A p \in Procs :
    DecodedOK(p)
    => InDocumentOrder(ListType(op[p]), result[p].list,
                       Named(body[p].children, ListElement(op[p])))

C13_Witness ==
  \E p \in Procs :
    /\ DecodedOK(p) /\ op[p] = "GetPredictions"
    /\ TagsOf(result[p].list) = << "1124", "1123" >>
    /\ TagsOf(result[p].list[1].lists.PredictionDirectionList[1].lists.PredictionList)
         = << "563", "181" >>
    /\ TagsOf(result[p].list[1].lists.MessageList) = << "m2", "m1" >>

\* C17: in GetRouteConfig the stop elements that are children of a route
\* element are decoded into that route's Stop list and nowhere else, the
\* stop elements inside a direction element into that direction's
\* stop-marker list and nowhere else; a marker adds no entry to the route's
\* Stop list, and a marker whose tag names no stop of the route is decoded
\* like any other, without an error.
C17_StopsAndMarkersApart ==
  \A p \in Procs :
    /\ ( /\ Returned(p) /\ op[p] = "GetRouteConfig"
         /\ ~httpErr[p] /\ ~readErr[p]
         /\ body[p].wellFormed /\ body[p].root = "body" )
       => err[p].nil
    /\ (DecodedOK(p) /\ op[p] = "GetRouteConfig")
       => LET routes == Named(body[p].children, "route")
          IN /\ Len(result[p].list) = Len(routes)
             /\ \A i \in 1..Len(routes) :
                  LET dirs == Named(routes[i].kids, "direction")
                      rc == result[p].list[i]
                  IN /\ TagsOf(rc.lists.StopList) = Attrs(Named(routes[i].kids, "stop"))
                     /\ Len(rc.lists.DirList) = Len(dirs)
                     /\ \A j \in 1..Len(dirs) :
                          TagsOf(rc.lists.DirList[j].lists.StopMarkerList)
                            = Attrs(Named(dirs[j].kids, "stop"))

C17_Witness ==
  \E p \in Procs :
    /\ DecodedOK(p) /\ op[p] = "GetRouteConfig"
    /\ LET rc == result[p].list[1]
       IN /\ TagsOf(rc.lists.StopList) = << "1234", "1123", "1234" >>
          /\ TagsOf(rc.lists.DirList[1].lists.StopMarkerList) = << "1123", "9999", "1123" >>
          /\ \E j \in 1..3 :
               \A k \in 1..Len(rc.lists.StopList) :
                 rc.lists.DirList[1].lists.StopMarkerList[j].Tag # rc.lists.StopList[k].Tag

----------------------------------------------------------------------------
Texts(o) == { FetchText(o), BodyText(o), XMLText(o) }

TextsDistinct ==
  /\ \A o \in Ops : Cardinality(Texts(o)) = 3
  /\ \A o1 \in Ops, o2 \in Ops : o1 # o2 => Texts(o1) \cap Texts(o2) = {}

\* C14 as claimed: the error returned on a transport, read or decode
\* failure retains the underlying cause as a chained (wrapped) cause, not
\* only as message text, and the three kinds of error can be told apart.
C14_CauseWrapped ==
  /\ TextsDistinct
  /\ \A p \in Procs :
       (Returned(p) /\ ~err[p].nil)
       => /\ err[p].unwrap # ""
          /\ err[p].unwrap = err[p].cause

\* C14 as amended: every non-nil error an operation returns holds its cause
\* only as text formatted into the message, with no wrapped cause; the
\* message starts with one of the operation's three texts, for the
\* transport error, the read error and the decode error, which differ from
\* one another and from those of every other operation, so that the kind of
\* an error can be told from its message alone; a transport failure always
\* returns the transport text with the transport's error formatted in.
C14_CauseFlattened ==
  /\ TextsDistinct
  /\ \A p \in Procs :
       /\ (Returned(p) /\ httpErr[p]) => err[p].text = FetchText(op[p])
       /\ (Returned(p) /\ ~err[p].nil)
          => /\ err[p].unwrap = ""
             /\ err[p].text \in Texts(op[p])
             /\ err[p].text = FetchText(op[p]) => httpErr[p] /\ err[p].cause = "httpErr"
             /\ err[p].text = BodyText(op[p])
                  => /\ reads[p] = 1 /\ decodes[p] = 0
                     /\ err[p].cause = IF readErr[p] THEN "readErr" ELSE "<nil>"
             /\ err[p].text = XMLText(op[p])
                  => decodes[p] = 1 /\ err[p].cause = "xmlErr"

C14_Witness ==
  \E p \in Procs :
    /\ Returned(p) /\ op[p] = "GetRouteList" /\ readErr[p]
    /\ err[p].text = "could not parse routes response body"
    /\ err[p].cause = "readErr"
    /\ err[p].unwrap = ""

----------------------------------------------------------------------------
\* The response was read to the end and its body is a well-formed envelope.
EnvelopeRead(p) ==
  /\ Returned(p) /\ ~httpErr[p] /\ reads[p] = 1 /\ ~readErr[p]
  /\ body[p].wellFormed /\ body[p].root = "body"

\* C15: for every list-returning operation, a response whose body is a
\* well-formed envelope with no child element of the operation's kind
\* (the feed's error body for an unknown agency, say), whatever the status
\* code of the response, yields an empty list and a nil error.
C15_EmptyIsSuccess ==
  \A p \in Procs :
    ( /\ EnvelopeRead(p) /\ op[p] # "GetVehicleLocations"
      /\ Named(body[p].children, ListElement(op[p])) = <<>> )
    => /\ err[p].nil
       /\ result[p].list = <<>>

C15_Witness ==
  \E p \in Procs :
    /\ EnvelopeRead(p) /\ op[p] = "GetRouteList"
    /\ body[p].status = 404 /\ body[p].children # <<>>
    /\ err[p].nil /\ result[p].list = <<>>

\* C16: in every outcome of every operation the returned result and the
\* returned error are never both populated: with a non-nil error the result
\* is nil, and with a non-nil result the error is nil.
C16_ResultXorError ==
  \A p \in Procs :
    /\ ~err[p].nil => result[p] = NilResult
    /\ ~result[p].nil => err[p].nil
    /\ ~Returned(p) => result[p] = NilResult /\ err[p] = NilError

C16_Witness ==
  \E p \in Procs :
    /\ Returned(p) /\ op[p] = "GetAgencyList" /\ decodes[p] = 1
    /\ ~result[p].nil /\ err[p].nil /\ Len(result[p].list) = 3

----------------------------------------------------------------------------
\* The command each operation names.
CommandOf(o) ==
  CASE o = "GetAgencyList" -> "agencyList"
    [] o = "GetRouteList" -> "routeList"
    [] o = "GetRouteConfig" -> "routeConfig"
    [] o \in {"GetStopPredictions", "GetPredictions"} -> "predictions"
    [] o = "GetPredictionsForMultiStops" -> "predictionsForMultiStops"
    [] o = "GetVehicleLocations" -> "vehicleLocations"

\* key=value with a key that is not empty.
KeyValue(f) == IndexOf(f, "=") > 1

\* The operations that take option constructors.
WithOptions == {"GetRouteConfig", "GetPredictionsForMultiStops", "GetVehicleLocations"}

\* C18 as claimed: in every request URL built by any operation with any
\* combination of the option constructors, the query starts with
\* command=<name> and every "&"-separated fragment is key=value with a key
\* that is not empty.
C18_EveryFragmentKeyValue ==
  \A p \in Procs :
    pc[p] = "get"
    => /\ Fragments(p)[1] = <<"command", "=", CommandOf(op[p])>>
       /\ \A i \in 1..Len(Fragments(p)) : KeyValue(Fragments(p)[i])

\* C18 as amended: every request URL starts with the fragment
\* command=<name>; in the URLs of the operations that take options
\* (GetRouteConfig, GetPredictionsForMultiStops, GetVehicleLocations) every
\* fragment is key=value with a key that is not empty, except the fragments
\* of RouteConfigTerse and RouteConfigVerbose, which are the bare words
\* terse and verbose.
C18_FragmentShape ==
  \A p \in Procs :
    pc[p] = "get"
    => LET fs == Fragments(p)
           ps == args[p].params
       IN /\ fs[1] = <<"command", "=", CommandOf(op[p])>>
          /\ op[p] \in WithOptions
             => /\ Len(fs) >= 2 + Len(ps)
                /\ HasPrefix(fs[2], <<"a", "=">>)
                /\ \A i \in 1..Len(ps) :
                     CASE ps[i].k = "RouteConfigTerse" -> fs[i + 2] = <<"terse">>
                       [] ps[i].k = "RouteConfigVerbose" -> fs[i + 2] = <<"verbose">>
                       [] OTHER -> KeyValue(fs[i + 2])
                /\ \A i \in (3 + Len(ps))..Len(fs) : KeyValue(fs[i])

C18_Witness ==
  \E p \in Procs :
    /\ Called(p, "GetRouteConfig")
    /\ Len(args[p].params) = 2
    /\ args[p].params[1].k = "RouteConfigVerbose"
    /\ args[p].params[2] = Opt("RouteConfigTag", <<"N">>, <<>>)
    /\ Fragments(p) = << <<"command", "=", "routeConfig">>, <<"a", "=", "alpha">>,
                         <<"verbose">>, <<"r", "=", "N">> >>

====
